---- MODULE Spec2Model ----
(***************************************************************************)
(* A model of the k-buckets routing table of src/src/lib.rs: a table of    *)
(* NumBits buckets, each a recency-ordered list of at most                 *)
(* MAX_NODES_PER_BUCKET nodes plus one optional pending node, with the     *)
(* lazily flushed ping-timeout eviction, update(), find_closest(),         *)
(* find_closest_with_self() and the buckets() iterator.                    *)
(*                                                                         *)
(* Identifiers are the integers 0 .. 2^NumBits - 1 (their own digest), the *)
(* distance is the bitwise XOR, Instants are integers read from the clock  *)
(* `now`, an Option is a sequence of length 0 (None) or 1 (Some).          *)
(***************************************************************************)
EXTENDS Integers, Sequences, FiniteSets, TLC

\* KBucketsPeerId::num_bits(), 512 in the source, scaled down.
NumBits == 3
\* MAX_NODES_PER_BUCKET, 20 in the source, scaled down.
MAX_NODES_PER_BUCKET == 2
\* The values callers attach to identifiers are 1 .. MaxVal.
MaxVal == 2
\* The clock runs from 0 to MaxTime.
MaxTime == 2
\* The ping_timeout handed to KBucketsTable::new, in clock ticks.
PingTimeout == 1
\* The threads that call the table concurrently are 1 .. NumThreads.
NumThreads == 2

RECURSIVE Pow2(_)
Pow2(n) == IF n = 0 THEN 1 ELSE 2 * Pow2(n - 1)

Ids == 0 .. (Pow2(NumBits) - 1)
\* The local identifiers a table is built with.
LocalIds == {5}
Vals == 1 .. MaxVal
BucketIdx == 0 .. (NumBits - 1)
Threads == 1 .. NumThreads

\* Option<usize>::None of bucket_num, and "no argument" in a recorded call.
NoBucket == 0 - 1
NoArg == 0 - 1

VARIABLES
  my_id,     \* KBucketsTable.my_id
  tables,    \* KBucketsTable.tables: bucket index -> KBucket
  now,       \* the clock Instant::now() reads
  last,      \* the last call made on the table and what it returned
  locks,     \* the Mutex of each bucket: the thread that holds it, 0 when free
  threads,   \* each thread's call in progress and its position in the code
  serial     \* history: each bucket as its calls leave it, one after another
             \* in the order they acquired the lock

vars == <<my_id, tables, now, last, locks, threads, serial>>

\* The state of the concurrent calls, which the calls made one at a time
\* leave alone.
tvars == <<locks, threads, serial>>

----------------------------------------------------------------------------
(* Pure helpers.                                                           *)

\* U512 ^ U512
RECURSIVE BitXor(_, _)
BitXor(a, b) ==
  IF a = 0 THEN b
  ELSE IF b = 0 THEN a
  ELSE (((a % 2) + (b % 2)) % 2) + (2 * BitXor(a \div 2, b \div 2))

\* KBucketsPeerId::distance_with
distance_with(a, b) == BitXor(a, b)

RECURSIVE BitLength(_)
BitLength(d) == IF d = 0 THEN 0 ELSE 1 + BitLength(d \div 2)

\* KBucketsPeerId::leading_zeros, on a distance NumBits wide
leading_zeros(d) == NumBits - BitLength(d)

\* usize::checked_sub: None when the result would be negative
checked_sub(a, b) == IF b > a THEN NoBucket ELSE a - b

\* The saturating subtraction a slip would write instead of checked_sub:
\* the local identifier is then routed to bucket 0.
bucket_num_saturating(id) ==
  LET lz == leading_zeros(distance_with(my_id, id))
  IN  IF lz > NumBits - 1 THEN 0 ELSE (NumBits - 1) - lz

\* The index counted from the wrong end: the number of leading zeros itself.
bucket_num_reversed(id) ==
  LET lz == leading_zeros(distance_with(my_id, id))
  IN  IF lz > NumBits - 1 THEN NoBucket ELSE lz

\* KBucketsTable::bucket_num
bucket_num(id) ==
  checked_sub(NumBits - 1, leading_zeros(distance_with(my_id, id)))

\* Instant::elapsed, read at clock value t
elapsed(instant, t) == t - instant

Node(id, value) == [id |-> id, value |-> value]

\* KBucket as built by KBucketsTable::new at clock value t
NewBucket(t) == [nodes |-> <<>>, pending_node |-> <<>>, last_update |-> t]

\* Vec::remove(i), 1-based
RemoveAt(s, i) == SubSeq(s, 1, i - 1) \o SubSeq(s, i + 1, Len(s))

\* Vec::insert(i, x), 1-based: x ends up at index i
InsertAt(s, i, x) == SubSeq(s, 1, i - 1) \o <<x>> \o SubSeq(s, i, Len(s))

\* ArrayVec::truncate(n)
Truncate(s, n) == IF Len(s) > n THEN SubSeq(s, 1, n) ELSE s

\* Iterator::position: the 1-based index of the first node with this id, 0 for None
RECURSIVE PositionFrom(_, _, _)
PositionFrom(nodes, id, i) ==
  IF i > Len(nodes) THEN 0
  ELSE IF nodes[i].id = id THEN i
  ELSE PositionFrom(nodes, id, i + 1)

\* The search that starts behind the front node
position_behind_front(nodes, id) == PositionFrom(nodes, id, 2)

Position(nodes, id) == PositionFrom(nodes, id, 1)

NodeIds(nodes) == [i \in 1 .. Len(nodes) |-> nodes[i].id]

IdSet(nodes) == {nodes[i].id : i \in 1 .. Len(nodes)}

----------------------------------------------------------------------------
(* KBucket::flush                                                          *)

\* flush with the comparison a slip would write: strictly after the timeout
FlushStrict(bucket, t) ==
  IF bucket.pending_node # <<>>
  THEN LET pending_node == bucket.pending_node[1].node
           instant == bucket.pending_node[1].instant
       IN  IF elapsed(instant, t) > PingTimeout
           THEN [bucket EXCEPT !.nodes = Append(RemoveAt(@, 1), pending_node),
                               !.pending_node = <<>>]
           ELSE bucket
  ELSE bucket

\* The flush that counts a promotion as an update of the bucket
FlushTouches(bucket, t) ==
  IF bucket.pending_node # <<>>
  THEN LET pending_node == bucket.pending_node[1].node
           instant == bucket.pending_node[1].instant
       IN  IF elapsed(instant, t) >= PingTimeout
           THEN [bucket EXCEPT !.nodes = Append(RemoveAt(@, 1), pending_node),
                               !.pending_node = <<>>,
                               !.last_update = t]
           ELSE bucket
  ELSE bucket

\* The flush that drops the most recently seen node instead of the front one
FlushEvictsBack(bucket, t) ==
  IF bucket.pending_node # <<>>
  THEN LET pending_node == bucket.pending_node[1].node
           instant == bucket.pending_node[1].instant
       IN  IF elapsed(instant, t) >= PingTimeout
           THEN [bucket EXCEPT !.nodes = Append(RemoveAt(@, Len(@)), pending_node),
                               !.pending_node = <<>>]
           ELSE bucket
  ELSE bucket

\* KBucket::flush(timeout), run at clock value t
Flush(bucket, t) ==
  IF bucket.pending_node # <<>>
  THEN LET pending_node == bucket.pending_node[1].node
           instant == bucket.pending_node[1].instant
       IN  IF elapsed(instant, t) >= PingTimeout
           THEN [bucket EXCEPT !.nodes = Append(RemoveAt(@, 1), pending_node),
                               !.pending_node = <<>>]
           ELSE bucket
  ELSE bucket

----------------------------------------------------------------------------
(* UpdateOutcome and the body of update() once the bucket is locked and    *)
(* flushed. Each branch gives the bucket after the call, the outcome       *)
(* returned and the ids of the nodes the branch dropped.                   *)

Outcome(kind, arg) == [kind |-> kind, arg |-> arg]

Added == Outcome("Added", NoArg)
Refreshed(old_val) == Outcome("Refreshed", old_val)
NeedPing(id) == Outcome("NeedPing", id)
Discarded == Outcome("Discarded", NoArg)
FailSelfUpdate == Outcome("FailSelfUpdate", NoArg)

PendingIds(table) == {table.pending_node[i].node.id : i \in 1 .. Len(table.pending_node)}

\* The refresh that returns the value it has just stored
refresh_new_value(table, pos, value, t) ==
  LET removed == RemoveAt(table.nodes, pos)
      existing == Node(table.nodes[pos].id, value)
      kept == IF pos = 1 THEN Truncate(removed, MAX_NODES_PER_BUCKET - 1) ELSE removed
  IN  [table |-> [nodes |-> Append(kept, existing),
                  pending_node |-> IF pos = 1 THEN <<>> ELSE table.pending_node,
                  last_update |-> t],
       out |-> Refreshed(value),
       dropped |-> IF pos = 1 THEN PendingIds(table) ELSE {}]

\* The refresh that drops the pending node wherever the node was found
refresh_always_clears(table, pos, value, t) ==
  LET removed == RemoveAt(table.nodes, pos)
      old_val == table.nodes[pos].value
      existing == Node(table.nodes[pos].id, value)
  IN  [table |-> [nodes |-> Append(Truncate(removed, MAX_NODES_PER_BUCKET - 1), existing),
                  pending_node |-> <<>>,
                  last_update |-> t],
       out |-> Refreshed(old_val),
       dropped |-> PendingIds(table)]

\* `if let Some(pos) = ...`: the node is already in the bucket, at index pos
refresh(table, pos, value, t) ==
  LET removed == RemoveAt(table.nodes, pos)
      old_val == table.nodes[pos].value
      existing == Node(table.nodes[pos].id, value)
      kept == IF pos = 1 THEN Truncate(removed, MAX_NODES_PER_BUCKET - 1) ELSE removed
  IN  [table |-> [nodes |-> Append(kept, existing),
                  pending_node |-> IF pos = 1 THEN <<>> ELSE table.pending_node,
                  last_update |-> t],
       out |-> Refreshed(old_val),
       dropped |-> IF pos = 1 THEN PendingIds(table) ELSE {}]

\* `table.nodes.len() <= MAX_NODES_PER_BUCKET`, one node too many
has_room_off_by_one(table) == Len(table.nodes) <= MAX_NODES_PER_BUCKET

\* `table.nodes.len() < MAX_NODES_PER_BUCKET`
has_room(table) == Len(table.nodes) < MAX_NODES_PER_BUCKET

\* The node is not yet in the bucket, but there's plenty of space
add(table, id, value, t) ==
  [table |-> [table EXCEPT !.nodes = Append(@, Node(id, value)),
                           !.last_update = t],
   out |-> Added,
   dropped |-> {}]

\* The full bucket that takes every new node as pending, over the one it held
pend_overwrites(table, id, value, t) ==
  [table |-> [table EXCEPT !.pending_node =
                 <<[node |-> Node(id, value), instant |-> t]>>],
   out |-> NeedPing(table.nodes[1].id),
   dropped |-> PendingIds(table)]

\* The full bucket that reports Discarded but keeps the new node as pending
pend_replaces(table, id, value, t) ==
  IF table.pending_node = <<>>
  THEN [table |-> [table EXCEPT !.pending_node =
                      <<[node |-> Node(id, value), instant |-> t]>>],
        out |-> NeedPing(table.nodes[1].id),
        dropped |-> {}]
  ELSE [table |-> [table EXCEPT !.pending_node =
                      <<[node |-> Node(id, value), instant |-> t]>>],
        out |-> Discarded,
        dropped |-> PendingIds(table)]

\* The pending node stamped with the bucket's last update, not with now
pend_stamps_last_update(table, id, value, t) ==
  IF table.pending_node = <<>>
  THEN [table |-> [table EXCEPT !.pending_node =
                      <<[node |-> Node(id, value), instant |-> table.last_update]>>],
        out |-> NeedPing(table.nodes[1].id),
        dropped |-> {}]
  ELSE [table |-> table, out |-> Discarded, dropped |-> {}]

\* Not enough space to put the node: it becomes the pending node if there is
\* none, and is discarded otherwise
pend(table, id, value, t) ==
  IF table.pending_node = <<>>
  THEN [table |-> [table EXCEPT !.pending_node =
                      <<[node |-> Node(id, value), instant |-> t]>>],
        out |-> NeedPing(table.nodes[1].id),
        dropped |-> {}]
  ELSE [table |-> table, out |-> Discarded, dropped |-> {}]

\* update() on the locked, flushed bucket `table`
update_locked(table, id, value, t) ==
  LET pos == Position(table.nodes, id)
  IN  IF pos # 0 THEN refresh(table, pos, value, t) @@ [pos |-> pos]
      ELSE IF has_room(table) THEN add(table, id, value, t) @@ [pos |-> 0]
      ELSE pend(table, id, value, t) @@ [pos |-> 0]

\* The ids of the nodes flush drops from the bucket
Evicted(bucket, t) ==
  IF Flush(bucket, t) # bucket THEN {bucket.nodes[1].id} ELSE {}

----------------------------------------------------------------------------
(* find_closest and find_closest_with_self                                 *)

\* `table.last_update.elapsed() >= self.ping_timeout`, one tick too early
ExpiredAtTimeout(table, t) == elapsed(table.last_update, t) >= PingTimeout

\* `table.last_update.elapsed() > self.ping_timeout`
Expired(table, t) == elapsed(table.last_update, t) > PingTimeout

\* The ids pushed to `out` from bucket n on, in bucket order; tbls are the
\* buckets as left by their flush.
RECURSIVE CollectFrom(_, _, _)
CollectFrom(tbls, n, t) ==
  IF n > NumBits - 1 THEN <<>>
  ELSE (IF Expired(tbls[n], t) THEN <<>> ELSE NodeIds(tbls[n].nodes))
       \o CollectFrom(tbls, n + 1, t)

\* One step of the stable sort_by(|a, b| b.distance_with(id).cmp(&a.distance_with(id))):
\* x goes behind every element e that does not compare Greater than x, and
\* e compares Greater than x when distance(x) > distance(e).
RECURSIVE SortInsert(_, _, _)
SortInsert(sorted, x, id) ==
  IF sorted = <<>> THEN <<x>>
  ELSE IF distance_with(x, id) > distance_with(Head(sorted), id)
       THEN <<x>> \o sorted
       ELSE <<Head(sorted)>> \o SortInsert(Tail(sorted), x, id)

RECURSIVE sort_by(_, _)
sort_by(out, id) ==
  IF out = <<>> THEN <<>>
  ELSE SortInsert(sort_by(SubSeq(out, 1, Len(out) - 1), id), out[Len(out)], id)

\* What find_closest(id) returns on the flushed buckets tbls at clock value t
find_closest(tbls, id, t) == sort_by(CollectFrom(tbls, 0, t), id)

\* position(|e| e.distance_with(&id) >= self.my_id.distance_with(&id)), 1-based, 0 for None
RECURSIVE SelfPositionFrom(_, _, _)
SelfPositionFrom(intermediate, id, i) ==
  IF i > Len(intermediate) THEN 0
  ELSE IF distance_with(intermediate[i], id) >= distance_with(my_id, id) THEN i
  ELSE SelfPositionFrom(intermediate, id, i + 1)

\* find_closest_with_self without its else branch: the local identifier is
\* lost when no element is at least as far from the target as it is
with_self_no_push(intermediate, id) ==
  LET pos == SelfPositionFrom(intermediate, id, 1)
  IN  IF pos # 0
      THEN IF intermediate[pos] # my_id
           THEN InsertAt(intermediate, pos, my_id)
           ELSE intermediate
      ELSE intermediate

\* The part of find_closest_with_self after the find_closest call
with_self(intermediate, id) ==
  LET pos == SelfPositionFrom(intermediate, id, 1)
  IN  IF pos # 0
      THEN IF intermediate[pos] # my_id
           THEN InsertAt(intermediate, pos, my_id)
           ELSE intermediate
      ELSE Append(intermediate, my_id)

----------------------------------------------------------------------------
(* The table: construction and the public operations.                      *)

\* A call and what it did: the operation, its arguments, the bucket it was
\* routed to, the outcome or the sequence returned, the index at which update
\* found the node (0 for None), the ids of the front nodes the call's flush
\* evicted and of the pending nodes a refresh dropped.
Call(op, id, value, bucket, out, res, pos, evicted, dropped) ==
  [op |-> op, id |-> id, value |-> value, bucket |-> bucket, out |-> out,
   res |-> res, pos |-> pos, evicted |-> evicted, dropped |-> dropped]

NoOutcome == Outcome("", NoArg)

\* A thread with no call in progress
IdleThread ==
  [pc |-> "idle", op |-> "", id |-> NoArg, value |-> NoArg, n |-> NoBucket,
   i |-> 0, out |-> <<>>]

\* A lock that excludes nobody
can_lock_always(lks, n) == TRUE

\* One lock for the whole table instead of one for each bucket
can_lock_table(lks, n) == \A m \in BucketIdx : lks[m] = 0

\* Mutex::lock on bucket n returns once no thread holds that Mutex
can_lock(lks, n) == lks[n] = 0

\* The MutexGuard of bucket n that Mutex::lock gives thread t
acquire(lks, n, t) == [lks EXCEPT ![n] = t]

\* A guard that outlives the scope it was taken in
release_never(lks, n, t) == lks

\* The MutexGuard of bucket n goes out of scope
release(lks, n, t) == [lks EXCEPT ![n] = 0]

\* History of a bucket: the bucket as the calls that have left it made it,
\* one after another in the order they acquired the lock, and the calls that
\* have acquired the lock since, in that order, each with the instants at
\* which it flushed and at which it was done (NoArg until then).
NewHistory(t) == [bucket |-> NewBucket(t), calls |-> <<>>]

Entry(t, op, id, value) ==
  [thread |-> t, op |-> op, id |-> id, value |-> value, flushed |-> NoArg, done |-> NoArg]

\* The bucket after the call e, made alone
Alone(bucket, e) ==
  IF e.op = "update"
  THEN update_locked(Flush(bucket, e.flushed), e.id, e.value, e.done).table
  ELSE Flush(bucket, e.flushed)

\* The history once the calls at its head that are done have been applied
RECURSIVE Settle(_)
Settle(h) ==
  IF h.calls # <<>> /\ Head(h.calls).done # NoArg
  THEN Settle([bucket |-> Alone(h.bucket, Head(h.calls)), calls |-> Tail(h.calls)])
  ELSE h

\* The history when thread t acquires the lock, flushes, and is done
Acquired(h, t, op, id, value) ==
  [h EXCEPT !.calls = Append(@, Entry(t, op, id, value))]

Flushed(h, t, time) ==
  [h EXCEPT !.calls = [k \in 1 .. Len(@) |->
     IF @[k].thread = t /\ @[k].done = NoArg THEN [@[k] EXCEPT !.flushed = time] ELSE @[k]]]

Done(h, t, time) ==
  Settle([h EXCEPT !.calls = [k \in 1 .. Len(@) |->
     IF @[k].thread = t /\ @[k].done = NoArg THEN [@[k] EXCEPT !.done = time] ELSE @[k]]])

\* KBucketsTable::new
Init ==
  /\ my_id \in LocalIds
  /\ tables = [n \in BucketIdx |-> NewBucket(0)]
  /\ now = 0
  /\ last = Call("new", my_id, NoArg, NoBucket, NoOutcome, <<>>, 0, {}, {})
  /\ locks = [n \in BucketIdx |-> 0]
  /\ threads = [t \in Threads |-> IdleThread]
  /\ serial = [n \in BucketIdx |-> NewHistory(0)]

\* KBucketsTable::update
Update(id, value) ==
  LET n == bucket_num(id)
  IN  /\ IF n = NoBucket
         THEN /\ tables' = tables
              /\ last' = Call("update", id, value, NoBucket, FailSelfUpdate, <<>>, 0, {}, {})
         ELSE LET r == update_locked(Flush(tables[n], now), id, value, now)
              IN  /\ tables' = [tables EXCEPT ![n] = r.table]
                  /\ last' = Call("update", id, value, n, r.out, <<>>, r.pos,
                                  Evicted(tables[n], now), r.dropped)
      /\ UNCHANGED <<my_id, now>>
      /\ UNCHANGED tvars

FlushAll == [n \in BucketIdx |-> Flush(tables[n], now)]

EvictedAll == UNION {Evicted(tables[n], now) : n \in BucketIdx}

\* KBucketsTable::find_closest
FindClosest(id) ==
  /\ tables' = FlushAll
  /\ last' = Call("find_closest", id, NoArg, NoBucket, NoOutcome,
                  find_closest(FlushAll, id, now), 0, EvictedAll, {})
  /\ UNCHANGED <<my_id, now>>
  /\ UNCHANGED tvars

\* KBucketsTable::find_closest_with_self
FindClosestWithSelf(id) ==
  /\ tables' = FlushAll
  /\ last' = Call("find_closest_with_self", id, NoArg, NoBucket, NoOutcome,
                  with_self(find_closest(FlushAll, id, now), id), 0, EvictedAll, {})
  /\ UNCHANGED <<my_id, now>>
  /\ UNCHANGED tvars

\* An iterator that walks the slice of buckets from its last element on
nth_bucket_from_back(k) == (NumBits - 1) - k

\* The bucket a BucketsIter that has yielded k buckets yields next: the
\* iterator walks self.tables.iter(), the slice from its first element on.
nth_bucket(k) == k

\* BucketsIter::size_hint / ExactSizeIterator::len after k buckets were yielded
iter_len(k) == NumBits - k

\* KBucketsTable::buckets: a new iterator, which has yielded nothing yet. The
\* call records, as its value, the length the iterator reports.
Buckets ==
  /\ last' = Call("buckets", NoArg, iter_len(0), NoBucket, NoOutcome, <<>>, 0, {}, {})
  /\ UNCHANGED <<my_id, tables, now>>
  /\ UNCHANGED tvars

\* BucketsIter::next on an iterator that has yielded k buckets so far. An
\* iterator holds nothing but its position in the slice and any number of
\* them (BucketsIter is Clone) can be alive at any position, so the position
\* is an input of the call. The Bucket yielded is dropped before the next call.
\* The call records, as its value, the length the iterator reports after it.
BucketsNext(k) ==
  /\ IF k < NumBits
     THEN /\ tables' = [tables EXCEPT ![nth_bucket(k)] = Flush(@, now)]
          /\ last' = Call("next", k, iter_len(k + 1), nth_bucket(k), Outcome("Some", NoArg),
                          <<>>, 0, Evicted(tables[nth_bucket(k)], now), {})
     ELSE /\ UNCHANGED tables
          /\ last' = Call("next", k, iter_len(k), NoBucket, Outcome("None", NoArg),
                          <<>>, 0, {}, {})
  /\ UNCHANGED <<my_id, now>>
  /\ UNCHANGED tvars

\* Bucket::num_entries, Bucket::has_pending, Bucket::last_update
num_entries(bucket) == Len(bucket.nodes)
has_pending(bucket) == bucket.pending_node # <<>>
last_update(bucket) == bucket.last_update

\* Time passes between two calls.
Tick ==
  /\ now < MaxTime
  /\ now' = now + 1
  /\ last' = Call("tick", NoArg, NoArg, NoBucket, NoOutcome, <<>>, 0, {}, {})
  /\ UNCHANGED <<my_id, tables>>
  /\ UNCHANGED tvars

----------------------------------------------------------------------------
(* The calls of concurrent threads. A call is a sequence of steps, each at  *)
(* most one access to the table: update() takes the lock of its bucket,     *)
(* flushes, then decides, mutates and returns; find_closest() takes, for    *)
(* each bucket in turn, the lock, flushes, looks at last_update, reads the  *)
(* nodes one by one and lets the guard go, then sorts and returns.          *)

\* update(id, value) is called by thread t: bucket_num, and the early return
StartUpdate(t, id, value) ==
  /\ threads[t].pc = "idle"
  /\ LET n == bucket_num(id)
     IN  IF n = NoBucket
         THEN /\ last' = Call("update", id, value, NoBucket, FailSelfUpdate, <<>>, 0, {}, {})
              /\ UNCHANGED threads
         ELSE /\ threads' = [threads EXCEPT ![t] =
                   [IdleThread EXCEPT !.pc = "lock", !.op = "update", !.id = id,
                                      !.value = value, !.n = n]]
              /\ UNCHANGED last
  /\ UNCHANGED <<my_id, tables, now, locks, serial>>

\* find_closest(id) or find_closest_with_self(id) is called by thread t
StartQuery(t, op, id) ==
  /\ threads[t].pc = "idle"
  /\ threads' = [threads EXCEPT ![t] =
        [IdleThread EXCEPT !.pc = "lock", !.op = op, !.id = id, !.n = 0]]
  /\ UNCHANGED <<my_id, tables, now, last, locks, serial>>

\* `table.lock()`: thread t waits until the lock of its bucket is free
Lock(t) ==
  LET c == threads[t]
  IN  /\ c.pc = "lock"
      /\ can_lock(locks, c.n)
      /\ locks' = acquire(locks, c.n, t)
      /\ threads' = [threads EXCEPT ![t].pc = "flush"]
      /\ serial' = [serial EXCEPT ![c.n] = Acquired(@, t, c.op, c.id, c.value)]
      /\ UNCHANGED <<my_id, tables, now, last>>

\* `table.flush(self.ping_timeout)` under the lock
LockedFlush(t) ==
  LET c == threads[t]
  IN  /\ c.pc = "flush"
      /\ tables' = [tables EXCEPT ![c.n] = Flush(@, now)]
      /\ threads' = [threads EXCEPT ![t].pc = IF c.op = "update" THEN "decide" ELSE "check"]
      /\ serial' = [serial EXCEPT ![c.n] = Flushed(@, t, now)]
      /\ UNCHANGED <<my_id, now, last, locks>>

\* update(): the outcome is decided, the bucket mutated, and the guard
\* dropped as the call returns
UpdateReturn(t) ==
  LET c == threads[t]
      r == update_locked(tables[c.n], c.id, c.value, now)
  IN  /\ c.pc = "decide"
      /\ tables' = [tables EXCEPT ![c.n] = r.table]
      /\ locks' = release(locks, c.n, t)
      /\ threads' = [threads EXCEPT ![t] = IdleThread]
      /\ last' = Call("update", c.id, c.value, c.n, r.out, <<>>, r.pos, {}, r.dropped)
      /\ serial' = [serial EXCEPT ![c.n] = Done(@, t, now)]
      /\ UNCHANGED <<my_id, now>>

\* find_closest(): `if table.last_update.elapsed() > self.ping_timeout { continue }`,
\* which drops the guard and goes on with the next bucket
ExpiredCheck(t) ==
  LET c == threads[t]
  IN  /\ c.pc = "check"
      /\ threads' = [threads EXCEPT ![t] =
            IF Expired(tables[c.n], now)
            THEN [c EXCEPT !.pc = "next"]
            ELSE [c EXCEPT !.pc = "read", !.i = 1]]
      /\ UNCHANGED <<my_id, tables, now, last, locks, serial>>

\* find_closest(): `for node in table.nodes.iter() { out.push(node.id.clone()) }`,
\* one node
ReadNode(t) ==
  LET c == threads[t]
  IN  /\ c.pc = "read"
      /\ threads' = [threads EXCEPT ![t] =
            IF c.i <= Len(tables[c.n].nodes)
            THEN [c EXCEPT !.out = Append(@, tables[c.n].nodes[c.i].id), !.i = c.i + 1]
            ELSE [c EXCEPT !.pc = "next", !.i = 0]]
      /\ UNCHANGED <<my_id, tables, now, last, locks, serial>>

\* find_closest(): the end of the loop body drops the guard; the loop goes on
\* with the next bucket
NextBucket(t) ==
  LET c == threads[t]
  IN  /\ c.pc = "next"
      /\ locks' = release(locks, c.n, t)
      /\ threads' = [threads EXCEPT ![t] =
            IF c.n + 1 < NumBits
            THEN [c EXCEPT !.pc = "lock", !.n = c.n + 1]
            ELSE [c EXCEPT !.pc = "sort", !.n = NoBucket]]
      /\ serial' = [serial EXCEPT ![c.n] = Done(@, t, now)]
      /\ UNCHANGED <<my_id, tables, now, last>>

\* find_closest(): the sort and the return; find_closest_with_self() adds the
\* local identifier
QueryReturn(t) ==
  LET c == threads[t]
      closest == sort_by(c.out, c.id)
      res == IF c.op = "find_closest_with_self" THEN with_self(closest, c.id) ELSE closest
  IN  /\ c.pc = "sort"
      /\ threads' = [threads EXCEPT ![t] = IdleThread]
      /\ last' = Call(c.op, c.id, NoArg, NoBucket, NoOutcome, res, 0, {}, {})
      /\ UNCHANGED <<my_id, tables, now, locks, serial>>

\* The steps of thread t inside a call, the wait for a lock apart
Run(t) ==
  \/ LockedFlush(t)
  \/ UpdateReturn(t)
  \/ ExpiredCheck(t)
  \/ ReadNode(t)
  \/ NextBucket(t)
  \/ QueryReturn(t)

\* The targets of the queries of Spec: the local identifier and the
\* identifier farthest from it.
Targets == {id \in Ids : distance_with(my_id, id) \in {0, Pow2(NumBits) - 1}}

\* Every operation of the table: update() of every identifier with one
\* value, the queries on two targets, the iterators, and time passing.
Next ==
  \/ \E id \in Ids : Update(id, 1)
  \/ \E id \in Targets : FindClosest(id)
  \/ \E id \in Targets : FindClosestWithSelf(id)
  \/ Buckets
  \/ \E k \in 0 .. NumBits : BucketsNext(k)
  \/ Tick

Spec == Init /\ [][Next]_vars

\* The identifiers that do not belong to bucket 1.
SparseIds == {id \in Ids : bucket_num(id) # 1}

\* The queries on every target, over a table that update() fills with the
\* identifiers of SparseIds.
NextQuery ==
  \/ \E id \in SparseIds : Update(id, 1)
  \/ \E id \in Ids : FindClosest(id)
  \/ \E id \in Ids : FindClosestWithSelf(id)
  \/ Tick

SpecQuery == Init /\ [][NextQuery]_vars

\* update() with every value on the identifiers of SparseIds, as time passes.
NextRefresh ==
  \/ \E id \in SparseIds, value \in Vals : Update(id, value)
  \/ FindClosest(my_id)
  \/ Tick

SpecRefresh == Init /\ [][NextRefresh]_vars

\* The identifiers the concurrent updates are made with: the local
\* identifier, the one closest to it, and as many of the farthest bucket as
\* fill it and leave one pending.
ContendedIds ==
  {id \in Ids :
     \/ distance_with(my_id, id) <= 1
     \/ /\ Pow2(NumBits - 1) <= distance_with(my_id, id)
        /\ distance_with(my_id, id) <= Pow2(NumBits - 1) + MAX_NODES_PER_BUCKET}

\* Concurrent update() calls, as time passes.
NextUpdates ==
  \/ \E t \in Threads, id \in ContendedIds : StartUpdate(t, id, 1)
  \/ \E t \in Threads : Lock(t)
  \/ \E t \in Threads : LockedFlush(t)
  \/ \E t \in Threads : UpdateReturn(t)
  \/ Tick

SpecUpdates == Init /\ [][NextUpdates]_vars

\* The identifiers the racing threads update: those of bucket 1.
RaceIds == {id \in Ids : bucket_num(id) = 1}

\* Concurrent update() calls on one bucket and find_closest() /
\* find_closest_with_self() calls.
NextRace ==
  \/ \E t \in Threads, id \in RaceIds : StartUpdate(t, id, 1)
  \/ \E t \in Threads : StartQuery(t, "find_closest", my_id)
  \/ \E t \in Threads : StartQuery(t, "find_closest_with_self", my_id)
  \/ \E t \in Threads : Lock(t)
  \/ \E t \in Threads : Run(t)
  \/ Tick

SpecRace == Init /\ [][NextRace]_vars

\* The identifier the threads of SpecThreads update: the one at distance 2.
LoneIds == {id \in Ids : distance_with(my_id, id) = 2}

\* Concurrent update() calls of one identifier and find_closest() /
\* find_closest_with_self() calls, under a fair scheduler.
NextThreads ==
  \/ \E t \in Threads, id \in LoneIds : StartUpdate(t, id, 1)
  \/ \E t \in Threads : StartQuery(t, "find_closest", my_id)
  \/ \E t \in Threads : StartQuery(t, "find_closest_with_self", my_id)
  \/ \E t \in Threads : Lock(t)
  \/ \E t \in Threads : Run(t)
  \/ Tick

\* The scheduler lets every thread that can take a step take one, and the
\* Mutex hands the lock to a thread that keeps asking for it.
FairThreads ==
  \A t \in Threads : WF_vars(Run(t)) /\ SF_vars(Lock(t))

SpecThreads == Init /\ [][NextThreads]_vars /\ FairThreads

----------------------------------------------------------------------------
(* Notions the properties below are stated with. They are written on the   *)
(* state alone, not with the operators that model the code.                *)

\* The step is a call of update() that was routed to a bucket.
RoutedUpdate == last'.op = "update" /\ last'.bucket # NoBucket

\* The bucket holds a pending contact that has been pending for at least the
\* ping-timeout at the present instant.
PendingTimedOut(bucket) ==
  /\ bucket.pending_node # <<>>
  /\ now - bucket.pending_node[1].instant >= PingTimeout

\* The contacts of a bucket without the one of this identifier, in order.
Without(nodes, id) == SelectSeq(nodes, LAMBDA c : c.id # id)

\* The contacts of a bucket whose pending contact takes the place of the
\* front contact.
Promoted(bucket) == Tail(bucket.nodes) \o <<bucket.pending_node[1].node>>

SeqRange(s) == {s[i] : i \in 1 .. Len(s)}

\* ---- C1 ----------------------------------------------------------------
\* The three steps of the capacity protocol, for an update(id, v) with an id
\* that is neither a contact nor the pending contact of its bucket b.
CapacityAdded(b, b2) ==
  Len(b.nodes) < MAX_NODES_PER_BUCKET =>
    /\ last'.out = Added
    /\ Len(b2.nodes) = Len(b.nodes) + 1
    /\ b2.pending_node = <<>>

CapacityNeedPing(b, b2) ==
  (Len(b.nodes) = MAX_NODES_PER_BUCKET /\ b.pending_node = <<>>) =>
    /\ last'.out = NeedPing(b.nodes[1].id)
    /\ b2.nodes = b.nodes
    /\ Len(b2.nodes) = MAX_NODES_PER_BUCKET

\* C1 as the claim states it: in a bucket that K updates with distinct
\* identifiers have filled (each returned Added), the next distinct
\* identifier returns NeedPing(front) with the size still K, and a further
\* distinct identifier, made while the pending slot is still occupied (the
\* front contact was not refreshed), returns Discarded.
C1_Claimed ==
  [][RoutedUpdate =>
      LET b == tables[last'.bucket]
          b2 == tables'[last'.bucket]
      IN  (last'.id \notin IdSet(b.nodes) /\ last'.id \notin PendingIds(b)) =>
            /\ CapacityAdded(b, b2)
            /\ CapacityNeedPing(b, b2)
            /\ b.pending_node # <<>> => last'.out = Discarded]_vars

\* C1, amended: as C1_Claimed, but the further distinct identifier returns
\* Discarded only when it comes before the pending contact has been pending
\* for the ping-timeout.
C1_CapacityProtocol ==
  [][RoutedUpdate =>
      LET b == tables[last'.bucket]
          b2 == tables'[last'.bucket]
      IN  (last'.id \notin IdSet(b.nodes) /\ last'.id \notin PendingIds(b)) =>
            /\ CapacityAdded(b, b2)
            /\ CapacityNeedPing(b, b2)
            /\ (b.pending_node # <<>> /\ ~PendingTimedOut(b)) =>
                 /\ last'.out = Discarded
                 /\ Len(b2.nodes) = MAX_NODES_PER_BUCKET]_vars

\* C1 happens: an update with an identifier that is neither a contact nor the
\* pending contact of its full bucket has returned Discarded.
C1_Discarded ==
  /\ last.op = "update"
  /\ last.out = Discarded
  /\ last.id \notin IdSet(tables[last.bucket].nodes)
  /\ last.id \notin PendingIds(tables[last.bucket])
  /\ Len(tables[last.bucket].nodes) = MAX_NODES_PER_BUCKET

\* ---- C2 ----------------------------------------------------------------
\* The step is a call that touches bucket n.
Touches(n) ==
  \/ last'.op = "update" /\ last'.bucket = n
  \/ last'.op \in {"find_closest", "find_closest_with_self"}
  \/ last'.op = "next" /\ last'.bucket = n

\* C2: a call that touches a bucket whose pending contact has been pending
\* for at least the ping-timeout first drops the front contact, appends the
\* pending contact at the back and clears the pending slot: the size of the
\* bucket is unchanged, the evicted identifier is no contact any more and no
\* query returns it, the promoted contact is a contact and pending no more;
\* a query or an iterator leaves exactly the promoted bucket, and an update
\* acts on the promoted bucket (a NeedPing names its front, a refresh
\* reorders it).
C2_PendingPromotion ==
  [][\A n \in BucketIdx :
      (PendingTimedOut(tables[n]) /\ Touches(n)) =>
        LET b == tables[n]
            b2 == tables'[n]
            evicted == b.nodes[1].id
            pending == b.pending_node[1].node
        IN  /\ Len(b2.nodes) = Len(b.nodes)
            /\ evicted \notin IdSet(b2.nodes)
            /\ pending.id \in IdSet(b2.nodes)
            /\ pending.id \notin PendingIds(b2)
            /\ last'.op # "update" =>
                 /\ b2.nodes = Promoted(b)
                 /\ b2.pending_node = <<>>
            /\ last'.op \in {"find_closest", "find_closest_with_self"} =>
                 evicted \notin SeqRange(last'.res)
            /\ last'.op = "update" =>
                 \/ /\ last'.out.kind = "Refreshed"
                    /\ b2.pending_node = <<>>
                    /\ b2.nodes = Append(Without(Promoted(b), last'.id),
                                         Node(last'.id, last'.value))
                 \/ /\ last'.out = NeedPing(Promoted(b)[1].id)
                    /\ b2.nodes = Promoted(b)
                    /\ b2.pending_node =
                         <<[node |-> Node(last'.id, last'.value), instant |-> now]>>]_vars

\* C2 happens: the iterator has reached a bucket and its flush has evicted
\* the front contact, which is gone from the bucket.
C2_Promoted ==
  /\ last.op = "next"
  /\ last.evicted # {}
  /\ last.evicted \cap IdSet(tables[last.bucket].nodes) = {}
  /\ tables[last.bucket].pending_node = <<>>
  /\ Len(tables[last.bucket].nodes) = MAX_NODES_PER_BUCKET

\* ---- C3 ----------------------------------------------------------------
\* C3 as the claim states it: a refresh that finds the identifier at the
\* front leaves the pending slot empty, the contact that was pending before
\* the call neither pending nor a contact, the size unchanged and the
\* identifier last; a refresh that finds it elsewhere leaves the pending slot
\* as it was before the call.
C3_Claimed ==
  [][(RoutedUpdate /\ last'.out.kind = "Refreshed") =>
      LET b == tables[last'.bucket]
          b2 == tables'[last'.bucket]
      IN  /\ last'.pos = 1 =>
               /\ b2.pending_node = <<>>
               /\ PendingIds(b) \cap IdSet(b2.nodes) = {}
               /\ Len(b2.nodes) = Len(b.nodes)
               /\ b2.nodes[Len(b2.nodes)].id = last'.id
          /\ last'.pos > 1 => b2.pending_node = b.pending_node]_vars

\* C3, amended: the pending slot the claim speaks of is the slot as the
\* call's own flush leaves it. A pending contact that has timed out is
\* promoted by that flush: it is then a contact after the call, and the slot
\* is empty after the call wherever the identifier was found. Otherwise as
\* claimed.
C3_RefreshClearsPending ==
  [][(RoutedUpdate /\ last'.out.kind = "Refreshed") =>
      LET b == tables[last'.bucket]
          b2 == tables'[last'.bucket]
      IN  /\ last'.pos = 1 =>
               /\ b2.pending_node = <<>>
               /\ ~PendingTimedOut(b) => PendingIds(b) \cap IdSet(b2.nodes) = {}
               /\ PendingTimedOut(b) => PendingIds(b) \subseteq IdSet(b2.nodes)
               /\ Len(b2.nodes) = Len(b.nodes)
               /\ b2.nodes[Len(b2.nodes)].id = last'.id
          /\ last'.pos > 1 =>
               b2.pending_node = IF PendingTimedOut(b) THEN <<>> ELSE b.pending_node]_vars

\* C3 happens: a refresh has found its identifier at the front of a bucket
\* with a pending contact and has dropped that pending contact.
C3_FrontRefreshed ==
  /\ last.op = "update"
  /\ last.out.kind = "Refreshed"
  /\ last.pos = 1
  /\ last.dropped # {}
  /\ tables[last.bucket].pending_node = <<>>

\* ---- C4 ----------------------------------------------------------------
\* An update(x, v1) that returned Added, followed by update(x, v2), returns
\* Refreshed(v1).
AddedThenRefreshed ==
  (last.op = "update" /\ last.out = Added /\ last'.op = "update" /\ last'.id = last.id)
    => last'.out = Refreshed(last.value)

\* The value stored with an identifier among these contacts.
ValueOf(nodes, id) == (CHOOSE c \in SeqRange(nodes) : c.id = id).value

\* update(id, v) on a bucket whose contacts are `nodes`, id among them:
\* Refreshed with the value stored before, the new value stored, the contact
\* moved to the back, the other contacts in the order they had.
RefreshOf(nodes, b2) ==
  /\ last'.out = Refreshed(ValueOf(nodes, last'.id))
  /\ b2.nodes = Append(Without(nodes, last'.id), Node(last'.id, last'.value))
  /\ Len(b2.nodes) = Len(nodes)

\* C4 as the claim states it: update(x, v1) then update(x, v2) return Added
\* then Refreshed(v1), and an update of an identifier that is a contact of its
\* bucket when the call is made returns Refreshed with the value stored
\* before, stores the new value, moves the contact to the back, keeps the
\* order of the other contacts and the size of the bucket.
C4_Claimed ==
  [][/\ AddedThenRefreshed
     /\ RoutedUpdate =>
          LET b == tables[last'.bucket]
          IN  last'.id \in IdSet(b.nodes) => RefreshOf(b.nodes, tables'[last'.bucket])]_vars

\* C4, amended: the contacts the claim speaks of are those of the bucket once
\* the call's own flush has run. When the pending contact has timed out, the
\* flush drops the front contact and appends the pending one, so the front
\* contact is not refreshed (it is no contact any more) and the others are
\* refreshed within the promoted bucket. Otherwise as claimed.
C4_Refresh ==
  [][/\ AddedThenRefreshed
     /\ RoutedUpdate =>
          LET b == tables[last'.bucket]
              flushed == IF PendingTimedOut(b) THEN Promoted(b) ELSE b.nodes
          IN  /\ last'.id \in IdSet(flushed) => RefreshOf(flushed, tables'[last'.bucket])
              /\ last'.id \notin IdSet(flushed) => last'.out.kind # "Refreshed"]_vars

\* C4 happens: a refresh has moved a contact from the front to the back of a
\* bucket of several contacts and has returned a value that is not the one it
\* stored.
C4_Refreshed ==
  /\ last.op = "update"
  /\ last.out.kind = "Refreshed"
  /\ last.out.arg # last.value
  /\ last.pos = 1
  /\ Len(tables[last.bucket].nodes) > 1
  /\ tables[last.bucket].nodes[Len(tables[last.bucket].nodes)] = Node(last.id, last.value)

\* ---- C5 ----------------------------------------------------------------
\* C5: update(L, v) with L the local identifier returns FailSelfUpdate and
\* leaves every bucket (contacts, pending slot, last-update timestamp) as it
\* was, also when a pending contact has timed out.
C5_SelfUpdate ==
  [][(last'.op = "update" /\ last'.id = my_id) =>
       /\ last'.out = FailSelfUpdate
       /\ tables' = tables]_vars

\* C5 happens: update(L, v) has returned while a bucket holds a pending
\* contact that has timed out.
C5_SelfUpdateOverTimedOut ==
  /\ last.op = "update"
  /\ last.id = my_id
  /\ \E n \in BucketIdx : PendingTimedOut(tables[n])

\* ---- C6 ----------------------------------------------------------------
\* A distance NumBits wide has exactly NumBits - 1 - i leading zero bits.
InClass(d, i) == Pow2(i) <= d /\ d < Pow2(i + 1)

\* Every contact and pending contact of bucket i is at a distance of class i
\* from the local identifier, which is stored nowhere.
Placement ==
  \A i \in BucketIdx :
    \A id \in IdSet(tables[i].nodes) \cup PendingIds(tables[i]) :
      /\ InClass(distance_with(my_id, id), i)
      /\ id # my_id

\* An update that returns Added raises the count of the bucket of the
\* identifier's class by one and no other count.
AddedCounts ==
  (last'.op = "update" /\ last'.out = Added) =>
    \A i \in BucketIdx :
      Len(tables'[i].nodes) =
        Len(tables[i].nodes) + (IF InClass(distance_with(my_id, last'.id), i) THEN 1 ELSE 0)

\* C6: in every state reached by updates, queries and iterations, bucket i
\* holds (as contacts and as pending contact) only identifiers whose distance
\* to the local identifier has exactly NumBits - 1 - i leading zero bits, never
\* the local identifier; and an update that returns Added raises only that
\* bucket's count, by one.
C6_Placement == []Placement /\ [][AddedCounts]_vars

\* C6 happens: every bucket holds a contact, one of them a pending contact
\* too, and the last call has added a contact.
C6_AllBucketsUsed ==
  /\ \A i \in BucketIdx : tables[i].nodes # <<>>
  /\ \E i \in BucketIdx : tables[i].pending_node # <<>>
  /\ last.op = "update"
  /\ last.out = Added

\* ---- C7 ----------------------------------------------------------------
\* C7: every bucket holds at most MAX_NODES_PER_BUCKET contacts and at most
\* one pending contact, and a bucket with a pending contact is full.
C7_Capacity ==
  \A i \in BucketIdx :
    /\ Len(tables[i].nodes) <= MAX_NODES_PER_BUCKET
    /\ Len(tables[i].pending_node) <= 1
    /\ tables[i].pending_node # <<>> => Len(tables[i].nodes) = MAX_NODES_PER_BUCKET

\* C7 happens: a flush has promoted the pending contact of a full bucket,
\* which is full still.
C7_FullAfterPromotion ==
  /\ last.evicted # {}
  /\ \E i \in BucketIdx :
       /\ last.evicted \subseteq {id \in Ids : InClass(distance_with(my_id, id), i)}
       /\ Len(tables[i].nodes) = MAX_NODES_PER_BUCKET

\* ---- C8 ----------------------------------------------------------------
\* The distances of these identifiers to the target never decrease.
Ascending(res, target) ==
  \A i \in 1 .. Len(res) - 1 :
    distance_with(res[i], target) <= distance_with(res[i + 1], target)

\* C8: the sequences find_closest(t) and find_closest_with_self(t) return are
\* ordered by non-decreasing distance to t, the closest identifier first.
C8_ClosestFirst ==
  last.op \in {"find_closest", "find_closest_with_self"} => Ascending(last.res, last.id)

\* ---- C9 ----------------------------------------------------------------
Occurrences(s, x) == Cardinality({i \in 1 .. Len(s) : s[i] = x})

\* C9: find_closest_with_self(t) returns the identifiers find_closest(t)
\* returns in that state, each as often (once) and in the same order, plus the
\* local identifier exactly once (and find_closest never returns that one).
C9_SelfIncluded ==
  last.op = "find_closest_with_self" =>
    LET closest == find_closest(tables, last.id, now)
    IN  /\ Occurrences(last.res, my_id) = 1
        /\ Occurrences(closest, my_id) = 0
        /\ SelectSeq(last.res, LAMBDA e : e # my_id) = closest
        /\ \A e \in SeqRange(closest) : Occurrences(last.res, e) = 1

\* C9 happens: find_closest_with_self has returned several identifiers with
\* the local identifier, the farthest from the target, appended at the end.
C9_SelfAppended ==
  /\ last.op = "find_closest_with_self"
  /\ Len(last.res) >= 3
  /\ last.res[Len(last.res)] = my_id
  /\ \A i \in 1 .. Len(last.res) - 1 :
       distance_with(last.res[i], last.id) < distance_with(my_id, last.id)

\* ---- C10 ---------------------------------------------------------------
\* The last update of the bucket is not older than the ping-timeout.
Fresh(bucket) == now - bucket.last_update <= PingTimeout

\* C10: find_closest(t) returns exactly the identifiers of the contacts that
\* the buckets updated within the ping-timeout hold after their flush, each
\* once: none of a bucket whose last update is older, none that is still
\* pending, and never the local identifier.
C10_StaleExcluded ==
  last.op = "find_closest" =>
    /\ SeqRange(last.res) =
         UNION {IdSet(tables[n].nodes) : n \in {i \in BucketIdx : Fresh(tables[i])}}
    /\ Len(last.res) = Cardinality(SeqRange(last.res))
    /\ \A n \in BucketIdx :
         /\ ~Fresh(tables[n]) => IdSet(tables[n].nodes) \cap SeqRange(last.res) = {}
         /\ PendingIds(tables[n]) \cap SeqRange(last.res) = {}
    /\ my_id \notin SeqRange(last.res)

\* C10 happens: find_closest has returned the contacts of a bucket updated
\* within the ping-timeout and none of a bucket with contacts whose last
\* update is older, while a contact is pending.
C10_StaleSkipped ==
  /\ last.op = "find_closest"
  /\ last.res # <<>>
  /\ \E n \in BucketIdx : ~Fresh(tables[n]) /\ tables[n].nodes # <<>>
  /\ \E n \in BucketIdx : tables[n].pending_node # <<>>

\* ---- C12 ---------------------------------------------------------------
\* The distance of an identifier to the local identifier.
Dist(id) == distance_with(my_id, id)

\* The identifiers update() routes to bucket n.
RoutedTo(n) == {id \in Ids : bucket_num(id) = n}

\* The identifiers of the k-th distance class, counted from the closest: those
\* at a distance of 2^k or more and less than 2^(k+1).
ClassIds(k) == {id \in Ids : InClass(Dist(id), k)}

\* C12: a new iterator reports the length NumBits; its call number k + 1
\* (k < NumBits views yielded so far) yields a view of the bucket of the k-th
\* closest distance class, flushed, and then reports NumBits - k - 1; the
\* first view is the bucket of the one identifier at distance 1, every view
\* is of identifiers strictly farther than those of the views before it; after
\* NumBits views the iterator yields nothing and reports 0.
C12_IterationOrder ==
  /\ last.op = "buckets" => last.value = NumBits
  /\ last.op = "next" =>
       LET k == last.id
       IN  /\ k < NumBits =>
                /\ last.out.kind = "Some"
                /\ last.bucket \in BucketIdx
                /\ RoutedTo(last.bucket) = ClassIds(k)
                /\ k = 0 => /\ Cardinality(RoutedTo(last.bucket)) = 1
                            /\ \A id \in RoutedTo(last.bucket) : Dist(id) = 1
                /\ \A j \in 0 .. (k - 1) :
                     \A near \in ClassIds(j), far \in RoutedTo(last.bucket) :
                       Dist(near) < Dist(far)
                /\ IdSet(tables[last.bucket].nodes) \subseteq ClassIds(k)
                /\ ~PendingTimedOut(tables[last.bucket])
                /\ last.value = NumBits - k - 1
           /\ k >= NumBits =>
                /\ last.out.kind = "None"
                /\ last.value = 0

\* C12 happens: the iterator has yielded its last view, the bucket of the
\* farthest identifiers, which its flush has changed, and reports the length 0.
C12_LastViewFlushed ==
  /\ last.op = "next"
  /\ last.id = NumBits - 1
  /\ last.out.kind = "Some"
  /\ last.evicted # {}
  /\ last.value = 0
  /\ tables[last.bucket].nodes # <<>>

\* ---- C13 ---------------------------------------------------------------
\* The identifiers a bucket stores, as contacts or as pending contact.
Stored(i) == IdSet(tables[i].nodes) \cup PendingIds(tables[i])

\* The identifiers that differ from the local identifier at the most
\* significant bit, and the one that differs in the least significant bit alone.
DifferAtMsb == {id \in Ids : Dist(id) >= Pow2(NumBits - 1)}
DifferAtLsbOnly == {id \in Ids : Dist(id) = 1}

\* C13 as the claim states it: the index grows with closeness; bucket 0
\* receives the identifiers that differ at the most significant bit, bucket
\* NumBits - 1 only the one that differs in the least significant bit alone.
C13_Claimed ==
  /\ \A i, j \in BucketIdx :
       \A a \in Stored(i), b \in Stored(j) : i < j => Dist(a) > Dist(b)
  /\ Stored(0) \subseteq DifferAtMsb
  /\ Stored(NumBits - 1) \subseteq DifferAtLsbOnly
  /\ (last.op = "update" /\ last.bucket # NoBucket) =>
       /\ last.id \in DifferAtMsb <=> last.bucket = 0
       /\ last.id \in DifferAtLsbOnly <=> last.bucket = NumBits - 1

\* C13, amended: the index grows with the distance; bucket 0 receives only the
\* identifier that differs in the least significant bit alone, bucket
\* NumBits - 1 the identifiers that differ at the most significant bit.
C13_IndexDirection ==
  /\ \A i, j \in BucketIdx :
       \A a \in Stored(i), b \in Stored(j) : i < j => Dist(a) < Dist(b)
  /\ Stored(0) \subseteq DifferAtLsbOnly
  /\ Stored(NumBits - 1) \subseteq DifferAtMsb
  /\ (last.op = "update" /\ last.bucket # NoBucket) =>
       /\ last.id \in DifferAtLsbOnly <=> last.bucket = 0
       /\ last.id \in DifferAtMsb <=> last.bucket = NumBits - 1

\* C13 happens: the identifier that differs in the least significant bit
\* alone has been added while the bucket of the farthest identifiers is full.
C13_BothEndsUsed ==
  /\ last.op = "update"
  /\ last.out = Added
  /\ last.id \in DifferAtLsbOnly
  /\ \E i \in BucketIdx :
       /\ Len(tables[i].nodes) = MAX_NODES_PER_BUCKET
       /\ IdSet(tables[i].nodes) \subseteq DifferAtMsb

\* ---- C14 ---------------------------------------------------------------
\* C14: an update that returns Discarded leaves every bucket (contacts and
\* their values, pending contact and its instant, last-update timestamp) as
\* it was before the call; the flush the call ran first has changed nothing.
C14_DiscardedFrame ==
  [][(last'.op = "update" /\ last'.out = Discarded) =>
       /\ tables' = tables
       /\ ~PendingTimedOut(tables[last'.bucket])
       /\ last'.evicted = {}]_vars

\* C14 happens: an update with a contact that is not the pending one has
\* returned Discarded on a bucket not updated since the clock last advanced.
C14_DiscardedLater ==
  /\ last.op = "update"
  /\ last.out = Discarded
  /\ tables[last.bucket].pending_node # <<>>
  /\ tables[last.bucket].pending_node[1].node # Node(last.id, last.value)
  /\ tables[last.bucket].last_update < now

\* ---- C15 ---------------------------------------------------------------
\* The pending slot after update(id, v) returned NeedPing: (id, v), stamped
\* with the current instant.
PendingStored(b2) ==
  b2.pending_node = <<[node |-> Node(last'.id, last'.value), instant |-> now]>>

\* C15 as the claim states it: when update(id, v) returns NeedPing(o), (id, v)
\* is the pending contact stamped with the current instant, and the contacts
\* of the bucket are those it had before the call.
C15_Claimed ==
  [][(last'.op = "update" /\ last'.out.kind = "NeedPing") =>
       LET b == tables[last'.bucket]
           b2 == tables'[last'.bucket]
       IN  /\ PendingStored(b2)
           /\ b2.nodes = b.nodes]_vars

\* C15, amended: the contacts of the bucket are those the call's own flush
\* left: the contacts before the call, or, when the pending contact had timed
\* out, these with the front contact dropped and the pending contact appended.
\* The identifier named by NeedPing is the front contact after the call.
C15_NeedPingFrame ==
  [][(last'.op = "update" /\ last'.out.kind = "NeedPing") =>
       LET b == tables[last'.bucket]
           b2 == tables'[last'.bucket]
       IN  /\ PendingStored(b2)
           /\ b2.nodes = IF PendingTimedOut(b) THEN Promoted(b) ELSE b.nodes
           /\ b2.last_update = b.last_update
           /\ last'.out.arg = b2.nodes[1].id]_vars

\* C15 happens: update has returned NeedPing and stored the pending contact
\* at an instant later than the last update of the bucket, whose contacts the
\* call has left alone.
C15_PendingStamped ==
  /\ last.op = "update"
  /\ last.out.kind = "NeedPing"
  /\ last.evicted = {}
  /\ tables[last.bucket].pending_node # <<>>
  /\ tables[last.bucket].pending_node[1].instant > tables[last.bucket].last_update

\* ---- C16 ---------------------------------------------------------------
\* The step sets the last-update timestamp of bucket n to the current instant
\* when it is an update of that bucket that returns Added or Refreshed, and
\* leaves it alone otherwise.
LastUpdateStep(n) ==
  tables'[n].last_update =
    IF /\ last'.op = "update"
       /\ last'.bucket = n
       /\ last'.out.kind \in {"Added", "Refreshed"}
    THEN now
    ELSE tables[n].last_update

\* C16: the last-update timestamp of every bucket is the creation time of the
\* table until an update of that bucket returns Added or Refreshed, which sets
\* it to the time of the call; no other call (NeedPing, Discarded,
\* FailSelfUpdate, a flush that promotes, a query, an iterator) changes it.
C16_LastUpdate ==
  /\ [](last.op = "new" => \A n \in BucketIdx : tables[n].last_update = now)
  /\ [](\A n \in BucketIdx : tables[n].last_update <= now)
  /\ [][\A n \in BucketIdx : LastUpdateStep(n)]_vars

\* C16 happens: an update has returned NeedPing after its flush promoted a
\* pending contact, on a bucket last updated at an earlier instant.
C16_PromotedNotUpdated ==
  /\ last.op = "update"
  /\ last.out.kind = "NeedPing"
  /\ last.evicted # {}
  /\ tables[last.bucket].last_update < now

\* ---- C18 ---------------------------------------------------------------
\* C18: no identifier occurs twice among the contacts of a bucket, the
\* pending contact of a bucket is none of its contacts, and no identifier is
\* stored in two buckets.
C18_NoDuplicates ==
  /\ \A i \in BucketIdx :
       /\ \A a, b \in 1 .. Len(tables[i].nodes) :
            a # b => tables[i].nodes[a].id # tables[i].nodes[b].id
       /\ PendingIds(tables[i]) \cap IdSet(tables[i].nodes) = {}
  /\ \A i, j \in BucketIdx : i # j => Stored(i) \cap Stored(j) = {}

\* C18 happens: update was called with the identifier of the pending contact
\* of a full bucket, which is still stored once.
C18_PendingUpdatedAgain ==
  /\ last.op = "update"
  /\ last.bucket # NoBucket
  /\ last.id \in PendingIds(tables[last.bucket])
  /\ last.out = Discarded

\* ---- C19 ---------------------------------------------------------------
\* The step is an update of bucket n with this kind of outcome.
UpdateOf(n, kind) ==
  last'.op = "update" /\ last'.bucket = n /\ last'.out.kind = kind

\* C19: NeedPing names the front contact of the bucket whose pending slot it
\* fills. While that pending contact stays in the slot the front contact stays
\* the same; when the pending contact becomes a contact, it had timed out and
\* the one contact the bucket loses is the front contact; the slot is emptied
\* otherwise only by a refresh of the front contact; and a refresh of another
\* contact, the pending contact not having timed out, leaves the front
\* contact and the pending contact in place.
C19_PingedIsEvicted ==
  [][\A n \in BucketIdx :
      LET b == tables[n]
          b2 == tables'[n]
      IN  /\ UpdateOf(n, "NeedPing") =>
               /\ b2.pending_node # <<>>
               /\ last'.out.arg = b2.nodes[1].id
          /\ b.pending_node # <<>> =>
               LET o == b.nodes[1].id
                   pending == b.pending_node[1].node
               IN  /\ b2.pending_node = b.pending_node => b2.nodes[1].id = o
                   /\ (b2.pending_node # b.pending_node /\ pending.id \in IdSet(b2.nodes)) =>
                        /\ PendingTimedOut(b)
                        /\ IdSet(b.nodes) \ IdSet(b2.nodes) = {o}
                   /\ (b2.pending_node # b.pending_node /\ pending.id \notin IdSet(b2.nodes)) =>
                        /\ UpdateOf(n, "Refreshed")
                        /\ last'.id = o
                   /\ (UpdateOf(n, "Refreshed") /\ last'.id # o /\ ~PendingTimedOut(b)) =>
                        /\ b2.pending_node = b.pending_node
                        /\ b2.nodes[1].id = o
                        /\ IdSet(b2.nodes) = IdSet(b.nodes)]_vars

\* C19 happens: a contact other than the front one has been refreshed while a
\* contact is pending, and the front contact and the pending contact are
\* still in place.
C19_OtherRefreshed ==
  /\ last.op = "update"
  /\ last.out.kind = "Refreshed"
  /\ last.pos > 1
  /\ tables[last.bucket].pending_node # <<>>
  /\ tables[last.bucket].nodes[1].id # last.id

\* ---- C11 ---------------------------------------------------------------
\* The buckets of which thread t holds the lock.
Held(t) == {n \in BucketIdx : locks[n] = t}

\* Thread t is inside update(), between the acquisition of the lock and the
\* return.
InUpdate(t) == threads[t].op = "update" /\ threads[t].pc \in {"flush", "decide"}

\* C11: a thread inside update(), from before its flush until it has decided,
\* mutated and returned, holds the lock of the bucket its identifier is routed
\* to and no other; at most one call is inside a bucket at a time, and a
\* bucket no call is inside is the bucket that the updates routed to it, made
\* alone one after another in the order they acquired the lock, produce; a
\* thread that waits for the lock of a bucket waits for an update routed to
\* that same bucket.
C11_PerBucketAtomic ==
  /\ \A t \in Threads :
       /\ InUpdate(t) => Held(t) = {threads[t].n}
       /\ ~InUpdate(t) => Held(t) = {}
       /\ InUpdate(t) => InClass(Dist(threads[t].id), threads[t].n)
       /\ (threads[t].pc = "lock" /\ ~ENABLED Lock(t)) =>
            \E u \in Threads \ {t} : InUpdate(u) /\ threads[u].n = threads[t].n
  /\ \A n \in BucketIdx :
       /\ Len(serial[n].calls) <= 1
       /\ serial[n].calls = <<>> => tables[n] = serial[n].bucket

\* C11 happens: an update waits for the lock of a bucket with a pending
\* contact while another update, inside that bucket, is about to decide, and
\* an update routed to another bucket has gone through since.
C11_Contended ==
  \E t, u \in Threads :
    /\ threads[t].pc = "lock"
    /\ threads[u].pc = "decide"
    /\ threads[t].n = threads[u].n
    /\ tables[threads[u].n].pending_node # <<>>
    /\ \E m \in BucketIdx \ {threads[u].n} : tables[m].nodes # <<>>

\* ---- C17 ---------------------------------------------------------------
\* Thread t has a call in progress.
InCall(t) == threads[t].pc # "idle"

\* A thread holds at most one lock: none while it waits for a lock (a query
\* has let the lock of one bucket go before it asks for the next), none while
\* it sorts and none between calls, and otherwise the lock of the bucket it
\* is at.
OneLock ==
  \A t \in Threads :
    /\ Cardinality(Held(t)) <= 1
    /\ threads[t].pc \in {"idle", "lock", "sort"} => Held(t) = {}
    /\ threads[t].pc \in {"flush", "decide", "check", "read", "next"} =>
         Held(t) = {threads[t].n}

\* When calls are in progress, a thread inside one of them can take a step.
NoDeadlock ==
  (\E t \in Threads : InCall(t)) =>
    \E t \in Threads : InCall(t) /\ (ENABLED Run(t) \/ ENABLED Lock(t))

\* C17: a thread executing update, find_closest or find_closest_with_self
\* never holds more than one bucket lock; no state is reached in which calls
\* are in progress and none of their threads can take a step; and, under fair
\* scheduling, every call returns.
C17_OneLockNoDeadlock ==
  /\ []OneLock
  /\ []NoDeadlock
  /\ \A t \in Threads : InCall(t) ~> ~InCall(t)

\* C17 happens: a query that has collected contacts waits for the lock of its
\* next bucket, which an update holds.
C17_QueryWaits ==
  \E t, u \in Threads :
    /\ threads[t].op \in {"find_closest", "find_closest_with_self"}
    /\ threads[t].pc = "lock"
    /\ threads[t].n > 0
    /\ InUpdate(u)
    /\ threads[u].n = threads[t].n
    /\ ~ENABLED Lock(t)

\* ---- C20 ---------------------------------------------------------------
\* The step is a query of thread t pushing an identifier to its output.
Pushes(t) ==
  /\ threads[t].pc = "read"
  /\ threads'[t].out # threads[t].out

\* The step is the return of the query of thread t.
Returns(t) == threads[t].pc = "sort" /\ threads'[t].pc = "idle"

\* C20: whatever updates other threads make meanwhile, a query returns no
\* identifier twice (and find_closest_with_self the local identifier once);
\* every identifier it pushes to its output is, at that moment, a contact of
\* the bucket whose lock the query holds, and is in the output once; and it
\* returns the identifiers it has pushed, and the local identifier only if it
\* is find_closest_with_self.
C20_RacingQuery ==
  /\ [](last.op \in {"find_closest", "find_closest_with_self"} =>
          /\ \A x \in SeqRange(last.res) : Occurrences(last.res, x) = 1
          /\ Occurrences(last.res, my_id) =
               (IF last.op = "find_closest_with_self" THEN 1 ELSE 0))
  /\ [][\A t \in Threads :
          /\ Pushes(t) =>
               LET c == threads[t]
                   x == threads'[t].out[Len(threads'[t].out)]
               IN  /\ threads'[t].out = Append(c.out, x)
                   /\ Held(t) = {c.n}
                   /\ x \in IdSet(tables[c.n].nodes)
                   /\ InClass(Dist(x), c.n)
                   /\ Occurrences(threads'[t].out, x) = 1
          /\ Returns(t) =>
               SeqRange(last'.res) \ {my_id} = SeqRange(threads[t].out)]_vars

\* C20 happens: a query has returned several contacts while an update of
\* another thread is inside a bucket.
C20_RacedResult ==
  /\ last.op \in {"find_closest", "find_closest_with_self"}
  /\ Len(last.res) >= 2
  /\ \E t \in Threads : InUpdate(t)

====
